---- MODULE Spec2Model ----
(***************************************************************************)
(* A model of app.py, the SAP SoD risk analysis application: the two       *)
(* table processors (process_rule_book, process_user_access), the          *)
(* violation detector (analyze_violations) and the Streamlit script        *)
(* main() with its session state.                                          *)
(*                                                                         *)
(* Text is a sequence of code points, so that str.strip(), str.upper()     *)
(* and the ordering used by sorted() are computed, not assumed.            *)
(***************************************************************************)
EXTENDS Integers, Sequences, FiniteSets, TLC

VARIABLES
    rule_rows,          \* rows of rule_df that iterrows() has yielded so far
    conflict_risk_map,  \* process_rule_book: dict pair -> risk
    access_rows,        \* rows of user_df that iterrows() has yielded so far
    user_role_tcodes,   \* process_user_access: dict user -> dict role -> set
    role_to_tcodes,     \* process_user_access: dict role -> set
    user_violations,    \* analyze_violations: list of user-level records
    role_violations,    \* analyze_violations: list of role-level records
    pc,                 \* phase of one analysis run
    rule_book_file,     \* main: the sidebar's rule book uploader
    user_access_file,   \* main: the sidebar's user access uploader
    session_state,      \* st.session_state
    screen,             \* what the last run of the script rendered
    last_run            \* what the last successful run computed (history)

vars == <<rule_rows, conflict_risk_map, access_rows, user_role_tcodes,
          role_to_tcodes, user_violations, role_violations, pc,
          rule_book_file, user_access_file, session_state, screen, last_run>>

----------------------------------------------------------------------------
(* Bounds of the model. *)

MaxRuleRows == 2
MaxAccessRows == 2
MaxRunRuleRows == 2
MaxRunAccessRows == 3

----------------------------------------------------------------------------
(* Text: str.strip(), str.upper(), comparison, str() of a cell. *)

\* the characters str.strip() removes, within ASCII
IsSpace(c) == c \in {9, 10, 11, 12, 13, 28, 29, 30, 31, 32}

RECURSIVE LStrip(_)
LStrip(s) == IF s # <<>> /\ IsSpace(Head(s)) THEN LStrip(Tail(s)) ELSE s

RECURSIVE RStrip(_)
RStrip(s) ==
    IF s # <<>> /\ IsSpace(s[Len(s)]) THEN RStrip(SubSeq(s, 1, Len(s) - 1)) ELSE s

Strip(s) == RStrip(LStrip(s))

UpperChar(c) == IF c \in 97..122 THEN c - 32 ELSE c

RECURSIVE Upper(_)
Upper(s) == IF s = <<>> THEN <<>> ELSE <<UpperChar(Head(s))>> \o Upper(Tail(s))

\* a < b for Python strings: by code point, a proper prefix first
RECURSIVE StrLess(_, _)
StrLess(a, b) ==
    IF b = <<>> THEN FALSE
    ELSE IF a = <<>> THEN TRUE
    ELSE IF Head(a) # Head(b) THEN Head(a) < Head(b)
    ELSE StrLess(Tail(a), Tail(b))

\* tuple(sorted((t1, t2)))
SortedPair(t1, t2) == IF StrLess(t2, t1) THEN <<t2, t1>> ELSE <<t1, t2>>

\* A cell of a frame: text, or the float NaN pandas gives an empty cell.
Txt(s) == [kind |-> "str", text |-> s]
NaN == [kind |-> "nan", text |-> <<>>]

\* str(cell): str(float('nan')) is 'nan'
PyStr(cell) == IF cell.kind = "nan" THEN <<110, 97, 110>> ELSE cell.text

\* the literal 'NAN' the processors compare codes with
NAN == <<78, 65, 78>>

----------------------------------------------------------------------------
(* Column labels, as text. *)

H_TCODE1 == <<84, 67, 79, 68, 69, 49>>
H_TCODE2 == <<84, 67, 79, 68, 69, 50>>
H_ASK_RISK == <<65, 83, 75, 95, 82, 73, 83, 75>>
H_USER_NAME == <<85, 83, 69, 82, 32, 78, 65, 77, 69>>
H_ROLE == <<82, 79, 76, 69>>
H_AUTH_VALUE ==
    <<65, 85, 84, 72, 79, 82, 73, 90, 65, 84, 73, 79, 78, 32, 86, 65, 76, 85, 69>>

\* df.columns.str.strip().str.upper()
NormalizeColumns(columns) ==
    [i \in 1..Len(columns) |-> Upper(Strip(columns[i]))]

HasColumn(columns, name) == \E i \in 1..Len(columns) : columns[i] = name

\* row[name] where the label exists: the cell under the first such label
GetItem(columns, row, name) ==
    row[CHOOSE i \in 1..Len(columns) :
            /\ columns[i] = name
            /\ \A j \in 1..(i - 1) : columns[j] # name]

\* the first of the labels a loop body reads that the frame lacks (KeyError)
RECURSIVE FirstMissing(_, _)
FirstMissing(columns, names) ==
    IF names = <<>> THEN <<>>
    ELSE IF ~HasColumn(columns, Head(names)) THEN Head(names)
    ELSE FirstMissing(columns, Tail(names))

\* str(KeyError(name)): the label in quotes
KeyErrorText(name) == <<39>> \o name \o <<39>>

----------------------------------------------------------------------------
(* Python dicts: keys in insertion order, and the values. *)

EmptyDict == [keys |-> <<>>, val |-> <<>>]

HasKey(d, k) == \E i \in 1..Len(d.keys) : d.keys[i] = k

KeySet(d) == {d.keys[i] : i \in 1..Len(d.keys)}

\* d[k] = v
DictPut(d, k, v) ==
    IF HasKey(d, k)
    THEN [d EXCEPT !.val = [x \in KeySet(d) |-> IF x = k THEN v ELSE d.val[x]]]
    ELSE [keys |-> Append(d.keys, k),
          val |-> [x \in KeySet(d) \cup {k} |-> IF x = k THEN v ELSE d.val[x]]]

----------------------------------------------------------------------------
(* process_rule_book *)

RuleColumns == <<H_TCODE1, H_TCODE2, H_ASK_RISK>>

\* str(row[...]).strip().upper(): an authorization code as the loops read it
CodeOf(cell) == Upper(Strip(PyStr(cell)))

\* str(row['ASK_RISK']).strip()
RiskOf(cell) == Strip(PyStr(cell))

\* RuleRowAccepted without the test t1 != t2
RuleRowAccepted_SelfPairs(t1, t2) ==
    t1 # <<>> /\ t2 # <<>> /\ t1 # NAN /\ t2 # NAN

\* the condition under which a rule row is indexed
RuleRowAccepted(t1, t2) ==
    t1 # <<>> /\ t2 # <<>> /\ t1 # NAN /\ t2 # NAN /\ t1 # t2

\* RuleInsert without the membership test: the last row for a pair wins
RuleInsert_Overwrite(map, pair, risk) == DictPut(map, pair, risk)

\* if pair not in conflict_risk_map: conflict_risk_map[pair] = risk
RuleInsert(map, pair, risk) ==
    IF ~HasKey(map, pair) THEN DictPut(map, pair, risk) ELSE map

\* the body of the loop over rule_df.iterrows(), for one row
RuleRowBody(map, columns, row) ==
    LET missing == FirstMissing(columns, RuleColumns) IN
    IF missing # <<>>
    THEN [raised |-> TRUE, error |-> KeyErrorText(missing), map |-> map]
    ELSE
        LET t1 == CodeOf(GetItem(columns, row, H_TCODE1))
            t2 == CodeOf(GetItem(columns, row, H_TCODE2))
            risk == RiskOf(GetItem(columns, row, H_ASK_RISK))
        IN  [raised |-> FALSE, error |-> <<>>,
             map |-> IF RuleRowAccepted(t1, t2)
                     THEN RuleInsert(map, SortedPair(t1, t2), risk)
                     ELSE map]

\* the loop of process_rule_book from row i on
RECURSIVE RuleLoop(_, _, _, _)
RuleLoop(map, columns, rows, i) ==
    IF i > Len(rows) THEN [raised |-> FALSE, error |-> <<>>, map |-> map]
    ELSE LET r == RuleRowBody(map, columns, rows[i]) IN
         IF r.raised THEN r ELSE RuleLoop(r.map, columns, rows, i + 1)

process_rule_book(rule_df) == RuleLoop(EmptyDict, rule_df.columns, rule_df.rows, 1)

----------------------------------------------------------------------------
(* process_user_access *)

AccessColumns == <<H_USER_NAME, H_ROLE, H_AUTH_VALUE>>

\* NameOf without strip()
NameOf_Untrimmed(cell) == PyStr(cell)

\* str(row['USER NAME']).strip(), str(row['ROLE']).strip()
NameOf(cell) == Strip(PyStr(cell))

\* the condition under which an access row is recorded
AccessRowAccepted(user, role, tcode) ==
    user # <<>> /\ role # <<>> /\ tcode # <<>> /\ tcode # NAN

\* user_role_tcodes[user][role].add(tcode), on defaultdicts
UserAdd(urt, user, role, tcode) ==
    LET roles_dict == IF HasKey(urt, user) THEN urt.val[user] ELSE EmptyDict
        tcodes == IF HasKey(roles_dict, role) THEN roles_dict.val[role] ELSE {}
    IN  DictPut(urt, user, DictPut(roles_dict, role, tcodes \cup {tcode}))

\* RoleAdd that assigns the set instead of adding to it
RoleAdd_Overwrite(rtt, role, tcode) == DictPut(rtt, role, {tcode})

\* role_to_tcodes[role].add(tcode), on a defaultdict
RoleAdd(rtt, role, tcode) ==
    LET tcodes == IF HasKey(rtt, role) THEN rtt.val[role] ELSE {}
    IN  DictPut(rtt, role, tcodes \cup {tcode})

\* the body of the loop over user_df.iterrows(), for one row
AccessRowBody(urt, rtt, columns, row) ==
    LET missing == FirstMissing(columns, AccessColumns) IN
    IF missing # <<>>
    THEN [raised |-> TRUE, error |-> KeyErrorText(missing), urt |-> urt, rtt |-> rtt]
    ELSE
        LET user == NameOf(GetItem(columns, row, H_USER_NAME))
            role == NameOf(GetItem(columns, row, H_ROLE))
            tcode == CodeOf(GetItem(columns, row, H_AUTH_VALUE))
        IN  IF AccessRowAccepted(user, role, tcode)
            THEN [raised |-> FALSE, error |-> <<>>,
                  urt |-> UserAdd(urt, user, role, tcode),
                  rtt |-> RoleAdd(rtt, role, tcode)]
            ELSE [raised |-> FALSE, error |-> <<>>, urt |-> urt, rtt |-> rtt]

\* the loop of process_user_access from row i on
RECURSIVE AccessLoop(_, _, _, _, _)
AccessLoop(urt, rtt, columns, rows, i) ==
    IF i > Len(rows)
    THEN [raised |-> FALSE, error |-> <<>>, urt |-> urt, rtt |-> rtt]
    ELSE LET r == AccessRowBody(urt, rtt, columns, rows[i]) IN
         IF r.raised THEN r ELSE AccessLoop(r.urt, r.rtt, columns, rows, i + 1)

\* the columns are normalized first, then the rows are read
process_user_access(user_df) ==
    AccessLoop(EmptyDict, EmptyDict, NormalizeColumns(user_df.columns),
               user_df.rows, 1)

----------------------------------------------------------------------------
(* analyze_violations *)

\* the orders in which iterating a set can yield its elements
Orders(S) ==
    {f \in [1..Cardinality(S) -> S] :
        \A i, j \in 1..Cardinality(S) : i # j => f[i] # f[j]}

\* Combinations2 that pairs neighbours only
Combinations2_Adjacent(order) ==
    [k \in 1..(Len(order) - 1) |-> <<order[k], order[k + 1]>>]

\* itertools.combinations(order, 2): positions i < j, in lexicographic order
RECURSIVE Combinations2(_)
Combinations2(order) ==
    IF Len(order) < 2 THEN <<>>
    ELSE [k \in 1..(Len(order) - 1) |-> <<order[1], order[k + 1]>>]
         \o Combinations2(Tail(order))

\* UserRecord that writes t1, t2 as enumerated instead of the sorted pair
UserRecord_Unsorted(user, role, t1, t2, map) ==
    [USER_NAME |-> user, ROLE |-> role, TCODE_1 |-> t1, TCODE_2 |-> t2,
     RISK_FACTOR |-> map.val[SortedPair(t1, t2)]]

\* the record appended for a pair found in the map, user level
UserRecord(user, role, t1, t2, map) ==
    LET pair == SortedPair(t1, t2) IN
    [USER_NAME |-> user, ROLE |-> role, TCODE_1 |-> pair[1],
     TCODE_2 |-> pair[2], RISK_FACTOR |-> map.val[pair]]

\* the record appended for a pair found in the map, role level
RoleRecord(role, t1, t2, map) ==
    LET pair == SortedPair(t1, t2) IN
    [ROLE |-> role, TCODE_1 |-> pair[1], TCODE_2 |-> pair[2],
     RISK_FACTOR |-> map.val[pair]]

\* the inner loop of the user-level pass over the combinations of one set
RECURSIVE UserRecords(_, _, _, _)
UserRecords(user, role, combos, map) ==
    IF combos = <<>> THEN <<>>
    ELSE LET t1 == Head(combos)[1]
             t2 == Head(combos)[2]
             rest == UserRecords(user, role, Tail(combos), map)
         IN  IF HasKey(map, SortedPair(t1, t2))
             THEN <<UserRecord(user, role, t1, t2, map)>> \o rest
             ELSE rest

\* the inner loop of the role-level pass over the combinations of one set
RECURSIVE RoleRecords(_, _, _)
RoleRecords(role, combos, map) ==
    IF combos = <<>> THEN <<>>
    ELSE LET t1 == Head(combos)[1]
             t2 == Head(combos)[2]
             rest == RoleRecords(role, Tail(combos), map)
         IN  IF HasKey(map, SortedPair(t1, t2))
             THEN <<RoleRecord(role, t1, t2, map)>> \o rest
             ELSE rest

\* all the codes a user holds, through any role
AllCodesOf(roles_dict) == UNION {roles_dict.val[r] : r \in KeySet(roles_dict)}

\* UserEntries that gives each role of a user all the codes of that user
RECURSIVE UserEntries_MergedRoles(_, _)
UserEntries_MergedRoles(urt, i) ==
    IF i > Len(urt.keys) THEN <<>>
    ELSE LET user == urt.keys[i]
             roles_dict == urt.val[user]
         IN  [k \in 1..Len(roles_dict.keys) |->
                 <<user, roles_dict.keys[k], AllCodesOf(roles_dict)>>]
             \o UserEntries_MergedRoles(urt, i + 1)

\* the (user, role, tcodes) triples in the order the nested loops visit them
RECURSIVE UserEntries(_, _)
UserEntries(urt, i) ==
    IF i > Len(urt.keys) THEN <<>>
    ELSE LET user == urt.keys[i]
             roles_dict == urt.val[user]
         IN  [k \in 1..Len(roles_dict.keys) |->
                 <<user, roles_dict.keys[k], roles_dict.val[roles_dict.keys[k]]>>]
             \o UserEntries(urt, i + 1)

\* the lists the user-level pass can build from the first n triples
RECURSIVE UserPass(_, _, _)
UserPass(entries, n, map) ==
    IF n = 0 THEN {<<>>}
    ELSE {done \o UserRecords(entries[n][1], entries[n][2], Combinations2(o), map) :
             done \in UserPass(entries, n - 1, map), o \in Orders(entries[n][3])}

\* the lists the role-level pass can build from the first n roles
RECURSIVE RolePass(_, _, _)
RolePass(rtt, n, map) ==
    IF n = 0 THEN {<<>>}
    ELSE {done \o RoleRecords(rtt.keys[n], Combinations2(o), map) :
             done \in RolePass(rtt, n - 1, map), o \in Orders(rtt.val[rtt.keys[n]])}

\* the results analyze_violations can return
analyze_violations(urt, rtt, map) ==
    {[user_violations |-> uv, role_violations |-> rv] :
        uv \in UserPass(UserEntries(urt, 1), Len(UserEntries(urt, 1)), map),
        rv \in RolePass(rtt, Len(rtt.keys), map)}

----------------------------------------------------------------------------
(* main: the script Streamlit runs on every interaction. *)

NoFile == [present |-> FALSE, columns |-> <<>>, rows |-> <<>>]

\* load_rule_book: the frame read, its column labels trimmed and uppercased
load_rule_book(file) ==
    [columns |-> NormalizeColumns(file.columns), rows |-> file.rows]

\* pd.DataFrame(records) if records else pd.DataFrame()
DataFrame(records) ==
    [columns |-> IF records = <<>> THEN {} ELSE DOMAIN records[1],
     rows |-> records]

\* what a run has computed when it reaches the stores
RunValues(map, urt, rtt, res) ==
    [ran |-> TRUE,
     conflict_pairs |-> Len(map.keys),
     total_users |-> Len(urt.keys),
     total_roles |-> Len(rtt.keys),
     user_violations |-> res.user_violations,
     role_violations |-> res.role_violations]

NoRun == [ran |-> FALSE]

\* the assignments to st.session_state at the end of the try block
StoreResults(ss, run) ==
    LET s1 == DictPut(ss, "analyzed", TRUE)
        s2 == DictPut(s1, "conflict_pairs", run.conflict_pairs)
        s3 == DictPut(s2, "total_users", run.total_users)
        s4 == DictPut(s3, "total_roles", run.total_roles)
        s5 == DictPut(s4, "user_violations", run.user_violations)
        s6 == DictPut(s5, "role_violations", run.role_violations)
        s7 == DictPut(s6, "user_violations_df", DataFrame(run.user_violations))
    IN  DictPut(s7, "role_violations_df", DataFrame(run.role_violations))

\* ExceptHandler for a run that had stored its pair count before it failed
ExceptHandler_KeepsPairs(ss, error, pairs) ==
    [raised |-> TRUE, error |-> error,
     ss |-> DictPut(ss, "conflict_pairs", pairs), run |-> NoRun]

\* the except clause: the session is left as it was, the error is reported;
\* pairs is the number of conflict pairs the run had built when it failed
ExceptHandler(ss, error, pairs) ==
    [raised |-> TRUE, error |-> error, ss |-> ss, run |-> NoRun]

\* the try block of main: steps 1 to 6 and the stores, or the except clause.
\* The outcomes are several where the order of a set's iteration decides
\* the order of the records.
TryBlock(rule_file, access_file, ss) ==
    LET rules == process_rule_book(load_rule_book(rule_file)) IN
    IF rules.raised THEN {ExceptHandler(ss, rules.error, 0)}
    ELSE
        LET access == process_user_access(access_file) IN
        IF access.raised
        THEN {ExceptHandler(ss, access.error, Len(rules.map.keys))}
        ELSE {[raised |-> FALSE, error |-> <<>>,
               ss |-> StoreResults(ss, RunValues(rules.map, access.urt, access.rtt, res)),
               run |-> RunValues(rules.map, access.urt, access.rtt, res)] :
                  res \in analyze_violations(access.urt, access.rtt, rules.map)}

\* st.session_state.get(key, default)
SessionGet(ss, key, default) == IF HasKey(ss, key) THEN ss.val[key] ELSE default

\* what a render shows: the page reached, whether the analysis button is on
\* it, how an analysis run in this render ended, the error text, the results
Page(page, button, run, error, shown) ==
    [page |-> page, button |-> button, run |-> run, error |-> error, shown |-> shown]

WelcomeScreen == Page("welcome", FALSE, "none", <<>>, NoRun)

\* the results section: the four metrics and the two tables; the charts of
\* the third tab read RISK_FACTOR of the role-level frame
ResultsSection(ss, run) ==
    LET shown == [ran |-> TRUE,
                  conflict_pairs |-> ss.val["conflict_pairs"],
                  total_users |-> ss.val["total_users"],
                  total_roles |-> ss.val["total_roles"],
                  user_violations |-> ss.val["user_violations_df"].rows,
                  role_violations |-> ss.val["role_violations_df"].rows]
    IN  IF /\ Len(ss.val["user_violations"]) > 0
           /\ "RISK_FACTOR" \notin ss.val["role_violations_df"].columns
        THEN Page("results_exception", TRUE, run, <<>>, shown)
        ELSE Page("results", TRUE, run, <<>>, shown)

\* one run of main(): the outcomes [screen, ss, run]
Main(rule_file, access_file, analyze_button, ss) ==
    IF ~rule_file.present
    THEN {[screen |-> WelcomeScreen, ss |-> ss, run |-> NoRun]}
    ELSE IF ~access_file.present
    THEN {[screen |-> Page("need_access", FALSE, "none", <<>>, NoRun),
           ss |-> ss, run |-> NoRun]}
    ELSE IF analyze_button
    THEN {IF o.raised
          THEN [screen |-> Page("error", TRUE, "failed", o.error, NoRun),
                ss |-> o.ss, run |-> NoRun]
          ELSE [screen |-> ResultsSection(o.ss, "complete"),
                ss |-> o.ss, run |-> o.run] :
              o \in TryBlock(rule_file, access_file, ss)}
    ELSE IF SessionGet(ss, "analyzed", FALSE)
    THEN {[screen |-> ResultsSection(ss, "none"), ss |-> ss, run |-> NoRun]}
    ELSE {[screen |-> Page("ready", TRUE, "none", <<>>, NoRun),
           ss |-> ss, run |-> NoRun]}

\* the state shared by every specification before its own operation starts
Fresh ==
    /\ rule_rows = <<>>
    /\ conflict_risk_map = EmptyDict
    /\ access_rows = <<>>
    /\ user_role_tcodes = EmptyDict
    /\ role_to_tcodes = EmptyDict
    /\ user_violations = <<>>
    /\ role_violations = <<>>
    /\ rule_book_file = NoFile
    /\ user_access_file = NoFile
    /\ session_state = EmptyDict
    /\ screen = WelcomeScreen
    /\ last_run = NoRun

sessionVars == <<rule_book_file, user_access_file, session_state, screen, last_run>>
ruleVars == <<rule_rows, conflict_risk_map>>
accessVars == <<access_rows, user_role_tcodes, role_to_tcodes>>
resultVars == <<user_violations, role_violations>>

----------------------------------------------------------------------------
(* process_rule_book, row by row, over every sequence of raw rule rows. *)

\* "A", " a", "B", an empty cell, " "
RawCodes == {Txt(<<65>>), Txt(<<32, 97>>), Txt(<<66>>), NaN, Txt(<<32>>)}

\* "High", " Low "
RawRisks == {Txt(<<72, 105, 103, 104>>), Txt(<<32, 76, 111, 119, 32>>)}

RuleRowInputs == {<<c1, c2, r>> : c1 \in RawCodes, c2 \in RawCodes, r \in RawRisks}

\* one iteration of the loop of process_rule_book
RuleRowStep(inputs, bound) ==
    /\ pc = "rules"
    /\ Len(rule_rows) < bound
    /\ \E row \in inputs :
          /\ rule_rows' = Append(rule_rows, row)
          /\ conflict_risk_map' =
                 RuleRowBody(conflict_risk_map, RuleColumns, row).map
    /\ UNCHANGED <<accessVars, resultVars, pc, sessionVars>>

ReadRuleRow == RuleRowStep(RuleRowInputs, MaxRuleRows)

InitRules == Fresh /\ pc = "rules"

NextRules == ReadRuleRow

SpecRules == InitRules /\ [][NextRules]_vars

----------------------------------------------------------------------------
(* process_user_access, row by row, over every sequence of raw access rows. *)

\* "u1", "U1", " u1 ", an empty cell
RawUsers == {Txt(<<117, 49>>), Txt(<<85, 49>>), Txt(<<32, 117, 49, 32>>), NaN}

\* "R1", " R1", " "
RawRoles == {Txt(<<82, 49>>), Txt(<<32, 82, 49>>), Txt(<<32>>)}

\* "A", "b ", an empty cell
RawGrants == {Txt(<<65>>), Txt(<<98, 32>>), NaN}

AccessRowInputs == {<<u, r, c>> : u \in RawUsers, r \in RawRoles, c \in RawGrants}

\* one iteration of the loop of process_user_access
AccessRowStep(inputs, bound) ==
    /\ pc = "access"
    /\ Len(access_rows) < bound
    /\ \E row \in inputs :
          LET r == AccessRowBody(user_role_tcodes, role_to_tcodes,
                                 AccessColumns, row)
          IN  /\ access_rows' = Append(access_rows, row)
              /\ user_role_tcodes' = r.urt
              /\ role_to_tcodes' = r.rtt
    /\ UNCHANGED <<ruleVars, resultVars, pc, sessionVars>>

ReadAccessRow == AccessRowStep(AccessRowInputs, MaxAccessRows)

InitAccess == Fresh /\ pc = "access"

NextAccess == ReadAccessRow

SpecAccess == InitAccess /\ [][NextAccess]_vars

----------------------------------------------------------------------------
(* One analysis: the rule rows, then the access rows, then the detection. *)

\* ("A", "B", "High"), ("b ", "A", "Low"), ("C", "A", "Low")
RunRuleRowInputs ==
    {<<Txt(<<65>>), Txt(<<66>>), Txt(<<72, 105, 103, 104>>)>>,
     <<Txt(<<98, 32>>), Txt(<<65>>), Txt(<<76, 111, 119>>)>>,
     <<Txt(<<67>>), Txt(<<65>>), Txt(<<76, 111, 119>>)>>}

\* (U1, R1, A), (U1, R1, B), (U1, R1, C), (U2, R1, "b "), (U2, R1, A), (U1, R2, B)
RunAccessRowInputs ==
    {<<Txt(<<85, 49>>), Txt(<<82, 49>>), Txt(<<65>>)>>,
     <<Txt(<<85, 49>>), Txt(<<82, 49>>), Txt(<<66>>)>>,
     <<Txt(<<85, 49>>), Txt(<<82, 49>>), Txt(<<67>>)>>,
     <<Txt(<<85, 50>>), Txt(<<82, 49>>), Txt(<<98, 32>>)>>,
     <<Txt(<<85, 50>>), Txt(<<82, 49>>), Txt(<<65>>)>>,
     <<Txt(<<85, 49>>), Txt(<<82, 50>>), Txt(<<66>>)>>}

RunRuleRow == RuleRowStep(RunRuleRowInputs, MaxRunRuleRows)

\* process_rule_book returns and process_user_access starts
RunRulesDone ==
    /\ pc = "rules"
    /\ pc' = "access"
    /\ UNCHANGED <<ruleVars, accessVars, resultVars, sessionVars>>

RunAccessRow == AccessRowStep(RunAccessRowInputs, MaxRunAccessRows)

\* process_user_access returns and analyze_violations runs
RunAnalyze ==
    /\ pc = "access"
    /\ \E res \in analyze_violations(user_role_tcodes, role_to_tcodes,
                                     conflict_risk_map) :
          /\ user_violations' = res.user_violations
          /\ role_violations' = res.role_violations
    /\ pc' = "done"
    /\ UNCHANGED <<ruleVars, accessVars, sessionVars>>

InitRun == Fresh /\ pc = "rules"

NextRun == RunRuleRow \/ RunRulesDone \/ RunAccessRow \/ RunAnalyze

SpecRun == InitRun /\ [][NextRun]_vars

----------------------------------------------------------------------------
(* Properties of process_rule_book, under SpecRules. *)

\* the two codes of a rule row as the index sees them
RowCodes(row) == {CodeOf(row[1]), CodeOf(row[2])}

\* a rule row with two present, distinct codes
ValidRuleRow(row) ==
    /\ CodeOf(row[1]) \notin {<<>>, NAN}
    /\ CodeOf(row[2]) \notin {<<>>, NAN}
    /\ CodeOf(row[1]) # CodeOf(row[2])

\* the first valid row whose codes are those of key p, in either column order
FirstRowFor(p) ==
    CHOOSE i \in 1..Len(rule_rows) :
        /\ ValidRuleRow(rule_rows[i])
        /\ RowCodes(rule_rows[i]) = {p[1], p[2]}
        /\ \A j \in 1..(i - 1) :
              ~(ValidRuleRow(rule_rows[j]) /\ RowCodes(rule_rows[j]) = {p[1], p[2]})

C3_IndexIsFirstValidRow ==
    /\ \A i \in 1..Len(rule_rows) :
          ValidRuleRow(rule_rows[i]) =>
              \E p \in KeySet(conflict_risk_map) : RowCodes(rule_rows[i]) = {p[1], p[2]}
    /\ \A p \in KeySet(conflict_risk_map) :
          /\ \E i \in 1..Len(rule_rows) :
                ValidRuleRow(rule_rows[i]) /\ RowCodes(rule_rows[i]) = {p[1], p[2]}
          /\ conflict_risk_map.val[p] = Strip(PyStr(rule_rows[FirstRowFor(p)][3]))
    /\ \A p, q \in KeySet(conflict_risk_map) :
          {p[1], p[2]} = {q[1], q[2]} => p = q

C3_StoredNeverChanged ==
    \A p \in KeySet(conflict_risk_map) :
        /\ p \in KeySet(conflict_risk_map')
        /\ conflict_risk_map'.val[p] = conflict_risk_map.val[p]

\* C3: first-write-wins, order-insensitive rule index. After each row the
\* severity already stored for a pair is unchanged, and the index maps each
\* unordered pair to the trimmed, case-preserved severity of the first valid
\* row that names its two codes, in either column order.
C3_FirstWriteWins == [][C3_StoredNeverChanged]_vars /\ []C3_IndexIsFirstValidRow

\* rows (a, b, S1) then (b, a, S2), S1 # S2, are read and S1 is what is stored
C3_Witness ==
    /\ Len(rule_rows) = 2
    /\ ValidRuleRow(rule_rows[1])
    /\ CodeOf(rule_rows[2][1]) = CodeOf(rule_rows[1][2])
    /\ CodeOf(rule_rows[2][2]) = CodeOf(rule_rows[1][1])
    /\ Strip(PyStr(rule_rows[1][3])) # Strip(PyStr(rule_rows[2][3]))
    /\ Len(conflict_risk_map.keys) = 1
    /\ conflict_risk_map.val[conflict_risk_map.keys[1]] = Strip(PyStr(rule_rows[1][3]))

\* a rule row whose two codes are the same code
SelfPairRow(row) == CodeOf(row[1]) = CodeOf(row[2])

NotSelfPairRow(row) == ~SelfPairRow(row)

\* C4: self-conflict exclusion. No key of conflict_risk_map has two equal
\* components, and the rows whose codes are equal after trimming and
\* uppercasing leave no trace: the map is the one the other rows alone build,
\* and no error is raised.
C4_SelfConflictExcluded ==
    /\ \A p \in KeySet(conflict_risk_map) : p[1] # p[2]
    /\ LET others == [columns |-> RuleColumns,
                      rows |-> SelectSeq(rule_rows, NotSelfPairRow)]
       IN  /\ ~process_rule_book(others).raised
           /\ process_rule_book(others).map = conflict_risk_map

\* a row whose raw codes differ but are one code once normalized, then a
\* valid row, which is indexed
C4_Witness ==
    /\ Len(rule_rows) = 2
    /\ rule_rows[1][1] # rule_rows[1][2]
    /\ SelfPairRow(rule_rows[1])
    /\ CodeOf(rule_rows[1][1]) \notin {<<>>, NAN}
    /\ ValidRuleRow(rule_rows[2])
    /\ Len(conflict_risk_map.keys) = 1

----------------------------------------------------------------------------
(* Properties of process_user_access, under SpecAccess. *)

\* a cell with no value: empty in the sheet, or empty after trimming
AbsentCell(cell) == cell.kind = "nan" \/ Strip(cell.text) = <<>>

CompleteAccessRow(row) ==
    ~AbsentCell(row[1]) /\ ~AbsentCell(row[2]) /\ ~AbsentCell(row[3])

\* C1: missing-data robustness. A row whose user name, role or code is
\* absent adds nothing and raises nothing: the structures are those built
\* from the complete rows alone, and the placeholder text of an empty cell
\* is never a user or a role.
C1_MissingDataRobust ==
    LET complete == AccessLoop(EmptyDict, EmptyDict, AccessColumns,
                               SelectSeq(access_rows, CompleteAccessRow), 1)
    IN  /\ ~complete.raised
        /\ user_role_tcodes = complete.urt
        /\ role_to_tcodes = complete.rtt
        /\ PyStr(NaN) \notin KeySet(user_role_tcodes)
        /\ PyStr(NaN) \notin KeySet(role_to_tcodes)

\* the rows the loop records
RecordedAccessRow(row) ==
    /\ Strip(PyStr(row[1])) # <<>>
    /\ Strip(PyStr(row[2])) # <<>>
    /\ CodeOf(row[3]) \notin {<<>>, NAN}

RecordedRows == SelectSeq(access_rows, RecordedAccessRow)

\* row i of the recorded rows is held under user key u
HeldUnder(u, i) ==
    \E r \in KeySet(user_role_tcodes.val[u]) :
        CodeOf(RecordedRows[i][3]) \in user_role_tcodes.val[u].val[r]

\* the statement of C2 for one notion, Key, of a name's canonical form:
\* rows whose names have the same canonical form share a key and a
\* grant-set, and the counts are the numbers of canonical forms
SharedKeys(Key(_)) ==
    /\ \A i, j \in 1..Len(RecordedRows) :
          /\ Key(RecordedRows[i][1]) = Key(RecordedRows[j][1]) =>
                \E u \in KeySet(user_role_tcodes) : HeldUnder(u, i) /\ HeldUnder(u, j)
          /\ (/\ Key(RecordedRows[i][1]) = Key(RecordedRows[j][1])
              /\ Key(RecordedRows[i][2]) = Key(RecordedRows[j][2])) =>
                \E u \in KeySet(user_role_tcodes) :
                    \E r \in KeySet(user_role_tcodes.val[u]) :
                        {CodeOf(RecordedRows[i][3]), CodeOf(RecordedRows[j][3])}
                            \subseteq user_role_tcodes.val[u].val[r]
          /\ Key(RecordedRows[i][2]) = Key(RecordedRows[j][2]) =>
                \E r \in KeySet(role_to_tcodes) :
                    {CodeOf(RecordedRows[i][3]), CodeOf(RecordedRows[j][3])}
                        \subseteq role_to_tcodes.val[r]
    /\ Len(user_role_tcodes.keys) =
           Cardinality({Key(RecordedRows[i][1]) : i \in 1..Len(RecordedRows)})
    /\ Len(role_to_tcodes.keys) =
           Cardinality({Key(RecordedRows[i][2]) : i \in 1..Len(RecordedRows)})

UpperTrimmed(cell) == Upper(Strip(PyStr(cell)))

Trimmed(cell) == Strip(PyStr(cell))

\* C2 as stated: user and role names are trimmed and uppercased like codes,
\* so names that differ only in case or surrounding whitespace share one key,
\* one grant-set and count once.
C2_NamesUppercased == SharedKeys(UpperTrimmed)

\* C2 as amended: user and role names are trimmed and keep their case, so
\* names that differ only in surrounding whitespace share one key, one
\* grant-set and count once, and names that differ in case are distinct keys.
C2_NamesTrimmedOnly == SharedKeys(Trimmed)

\* two recorded rows whose user cells differ only in surrounding whitespace,
\* with different codes: one user, one role, both codes in the one grant-set
C2_Witness ==
    /\ Len(access_rows) = 2
    /\ Len(RecordedRows) = 2
    /\ access_rows[1][1] # access_rows[2][1]
    /\ Trimmed(access_rows[1][1]) = Trimmed(access_rows[2][1])
    /\ access_rows[1][2] # access_rows[2][2]
    /\ Trimmed(access_rows[1][2]) = Trimmed(access_rows[2][2])
    /\ CodeOf(access_rows[1][3]) # CodeOf(access_rows[2][3])
    /\ Len(user_role_tcodes.keys) = 1
    /\ Len(role_to_tcodes.keys) = 1
    /\ Cardinality(role_to_tcodes.val[role_to_tcodes.keys[1]]) = 2

----------------------------------------------------------------------------
(* Properties of analyze_violations, under SpecRun. *)

\* the codes user u holds through role r
GrantSet(u, r) ==
    IF HasKey(user_role_tcodes, u) /\ HasKey(user_role_tcodes.val[u], r)
    THEN user_role_tcodes.val[u].val[r]
    ELSE {}

AllRoles == UNION {KeySet(user_role_tcodes.val[u]) : u \in KeySet(user_role_tcodes)}

\* the codes granted through role r by all users together
AggregatedSet(r) == UNION {GrantSet(u, r) : u \in KeySet(user_role_tcodes)}

\* the user-level records for user u, role r and the conflict pair p
UserHits(u, r, p) ==
    {i \in 1..Len(user_violations) :
        /\ user_violations[i].USER_NAME = u
        /\ user_violations[i].ROLE = r
        /\ {user_violations[i].TCODE_1, user_violations[i].TCODE_2} = {p[1], p[2]}}

\* the role-level records for role r and the conflict pair p
RoleHits(r, p) ==
    {i \in 1..Len(role_violations) :
        /\ role_violations[i].ROLE = r
        /\ {role_violations[i].TCODE_1, role_violations[i].TCODE_2} = {p[1], p[2]}}

\* C5: user-level detection is exact and per role. For each (user, role)
\* there is exactly one user-level record per indexed pair whose two codes
\* are both in that user's grant-set for that role, with the indexed
\* severity, and there is no other record.
C5_UserLevelExact ==
    pc = "done" =>
        /\ \A u \in KeySet(user_role_tcodes) :
              \A r \in AllRoles :
                  \A p \in KeySet(conflict_risk_map) :
                      Cardinality(UserHits(u, r, p)) =
                          IF {p[1], p[2]} \subseteq GrantSet(u, r) THEN 1 ELSE 0
        /\ \A i \in 1..Len(user_violations) :
              \E p \in KeySet(conflict_risk_map) :
                  /\ i \in UserHits(user_violations[i].USER_NAME,
                                    user_violations[i].ROLE, p)
                  /\ {p[1], p[2]} \subseteq GrantSet(user_violations[i].USER_NAME,
                                                     user_violations[i].ROLE)
                  /\ user_violations[i].RISK_FACTOR = conflict_risk_map.val[p]

\* one user holds an indexed pair within one role, which is recorded once,
\* and only one of its codes within another role, which is not recorded
C5_Witness ==
    /\ pc = "done"
    /\ Len(user_violations) = 1
    /\ \E u \in KeySet(user_role_tcodes) :
          \E r1, r2 \in KeySet(user_role_tcodes.val[u]) :
              \E p \in KeySet(conflict_risk_map) :
                  /\ r1 # r2
                  /\ {p[1], p[2]} \subseteq GrantSet(u, r1)
                  /\ {p[1], p[2]} \cap GrantSet(u, r2) # {}
                  /\ ~({p[1], p[2]} \subseteq GrantSet(u, r2))

\* C6: role-level detection is exact over the aggregated grant-set. For each
\* role there is exactly one role-level record per indexed pair whose two
\* codes both belong to the union of the codes all users hold through that
\* role, with the indexed severity, and there is no other record.
C6_RoleLevelExact ==
    pc = "done" =>
        /\ KeySet(role_to_tcodes) = AllRoles
        /\ \A r \in AllRoles :
              \A p \in KeySet(conflict_risk_map) :
                  Cardinality(RoleHits(r, p)) =
                      IF {p[1], p[2]} \subseteq AggregatedSet(r) THEN 1 ELSE 0
        /\ \A i \in 1..Len(role_violations) :
              \E p \in KeySet(conflict_risk_map) :
                  /\ i \in RoleHits(role_violations[i].ROLE, p)
                  /\ {p[1], p[2]} \subseteq AggregatedSet(role_violations[i].ROLE)
                  /\ role_violations[i].RISK_FACTOR = conflict_risk_map.val[p]

\* a role with two role-level records, one of them for a pair that no single
\* user holds through that role
C6_Witness ==
    /\ pc = "done"
    /\ Len(role_violations) = 2
    /\ role_violations[1].ROLE = role_violations[2].ROLE
    /\ \E i \in 1..2 :
          \A u \in KeySet(user_role_tcodes) :
              ~({role_violations[i].TCODE_1, role_violations[i].TCODE_2}
                    \subseteq GrantSet(u, role_violations[i].ROLE))

\* C8: deterministic pair orientation. In every user-level and role-level
\* record TCODE_1 is strictly smaller than TCODE_2, and no entity has one
\* conflict recorded in two orientations.
C8_PairOrientation ==
    /\ \A i \in 1..Len(user_violations) :
          StrLess(user_violations[i].TCODE_1, user_violations[i].TCODE_2)
    /\ \A i \in 1..Len(role_violations) :
          StrLess(role_violations[i].TCODE_1, role_violations[i].TCODE_2)
    /\ \A i, j \in 1..Len(user_violations) :
          ~(/\ user_violations[i].USER_NAME = user_violations[j].USER_NAME
            /\ user_violations[i].ROLE = user_violations[j].ROLE
            /\ user_violations[i].TCODE_1 = user_violations[j].TCODE_2
            /\ user_violations[i].TCODE_2 = user_violations[j].TCODE_1)
    /\ \A i, j \in 1..Len(role_violations) :
          ~(/\ role_violations[i].ROLE = role_violations[j].ROLE
            /\ role_violations[i].TCODE_1 = role_violations[j].TCODE_2
            /\ role_violations[i].TCODE_2 = role_violations[j].TCODE_1)

\* the only rule row lists the larger code first, and both passes record
\* the pair
C8_Witness ==
    /\ pc = "done"
    /\ Len(rule_rows) = 1
    /\ StrLess(CodeOf(rule_rows[1][2]), CodeOf(rule_rows[1][1]))
    /\ Len(user_violations) >= 1
    /\ Len(role_violations) >= 1

\* C9: user-level violations are subsumed by role-level violations. Each
\* user-level record has a role-level record with the same role, pair and
\* severity, so role_violations is non-empty whenever user_violations is.
C9_UserSubsumedByRole ==
    /\ \A i \in 1..Len(user_violations) :
          \E j \in 1..Len(role_violations) :
              /\ role_violations[j].ROLE = user_violations[i].ROLE
              /\ role_violations[j].TCODE_1 = user_violations[i].TCODE_1
              /\ role_violations[j].TCODE_2 = user_violations[i].TCODE_2
              /\ role_violations[j].RISK_FACTOR = user_violations[i].RISK_FACTOR
    /\ user_violations # <<>> => role_violations # <<>>

\* one user-level record, answered by a role-level record for the same
\* role, pair and severity, while another user holds the role too
C9_Witness ==
    /\ pc = "done"
    /\ Len(user_violations) = 1
    /\ Len(role_violations) = 1
    /\ Len(user_role_tcodes.keys) = 2
    /\ role_violations[1].TCODE_1 = user_violations[1].TCODE_1

----------------------------------------------------------------------------
(* A session: uploads, removals, clicks and other reruns of the script. *)

\* "A", "B", "C", "High", "Low", "U1", "U2", "R1"
cA == Txt(<<65>>)
cB == Txt(<<66>>)
cC == Txt(<<67>>)
cHigh == Txt(<<72, 105, 103, 104>>)
cLow == Txt(<<76, 111, 119>>)
cU1 == Txt(<<85, 49>>)
cU2 == Txt(<<85, 50>>)
cR1 == Txt(<<82, 49>>)

\* a sheet headed " tcode1", "TCODE2", "Ask_Risk"
RuleHeaders ==
    <<<<32, 116, 99, 111, 100, 101, 49>>, H_TCODE2,
      <<65, 115, 107, 95, 82, 105, 115, 107>>>>

\* a sheet headed "User Name", "ROLE", "AUTHORIZATION VALUE "
AccessHeaders ==
    <<<<85, 115, 101, 114, 32, 78, 97, 109, 101>>, H_ROLE, H_AUTH_VALUE \o <<32>>>>

\* the rule books a user may upload: one pair; two pairs; no ASK_RISK
\* column, with a row; no ASK_RISK column and no row
RuleFiles ==
    {[present |-> TRUE, columns |-> RuleHeaders, rows |-> <<<<cA, cB, cHigh>>>>],
     [present |-> TRUE, columns |-> RuleHeaders,
      rows |-> <<<<cB, cA, cLow>>, <<cC, cA, cHigh>>>>],
     [present |-> TRUE, columns |-> <<H_TCODE1, H_TCODE2>>, rows |-> <<<<cA, cB>>>>],
     [present |-> TRUE, columns |-> <<H_TCODE1, H_TCODE2>>, rows |-> <<>>]}

\* the access sheets a user may upload: one user holding A and B through
\* R1; two users holding A and B apart through R1; no ROLE column, with a
\* row; no ROLE column and no row
AccessFiles ==
    {[present |-> TRUE, columns |-> AccessHeaders,
      rows |-> <<<<cU1, cR1, cA>>, <<cU1, cR1, cB>>>>],
     [present |-> TRUE, columns |-> AccessHeaders,
      rows |-> <<<<cU1, cR1, cA>>, <<cU2, cR1, cB>>>>],
     [present |-> TRUE, columns |-> <<H_USER_NAME, H_AUTH_VALUE>>,
      rows |-> <<<<cU1, cA>>>>],
     [present |-> TRUE, columns |-> <<H_USER_NAME, H_AUTH_VALUE>>, rows |-> <<>>]}

\* the script runs with the widgets as they now are
Rerender(rule_file, access_file, analyze_button) ==
    \E o \in Main(rule_file, access_file, analyze_button, session_state) :
        /\ rule_book_file' = rule_file
        /\ user_access_file' = access_file
        /\ session_state' = o.ss
        /\ screen' = o.screen
        /\ last_run' = IF o.run.ran THEN o.run ELSE last_run
        /\ UNCHANGED <<ruleVars, accessVars, resultVars, pc>>

UploadRuleBook ==
    /\ pc = "session"
    /\ \E f \in RuleFiles : f # rule_book_file /\ Rerender(f, user_access_file, FALSE)

RemoveRuleBook ==
    /\ pc = "session"
    /\ rule_book_file.present
    /\ Rerender(NoFile, user_access_file, FALSE)

UploadUserAccess ==
    /\ pc = "session"
    /\ \E f \in AccessFiles : f # user_access_file /\ Rerender(rule_book_file, f, FALSE)

RemoveUserAccess ==
    /\ pc = "session"
    /\ user_access_file.present
    /\ Rerender(rule_book_file, NoFile, FALSE)

\* the "Run SoD Analysis" button, where the last render put it on the page
ClickAnalyze ==
    /\ pc = "session"
    /\ screen.button
    /\ Rerender(rule_book_file, user_access_file, TRUE)

\* any other interaction that makes Streamlit run the script again
Rerun ==
    /\ pc = "session"
    /\ Rerender(rule_book_file, user_access_file, FALSE)

InitSession == Fresh /\ pc = "session"

NextSession ==
    \/ UploadRuleBook
    \/ RemoveRuleBook
    \/ UploadUserAccess
    \/ RemoveUserAccess
    \/ ClickAnalyze
    \/ Rerun

SpecSession == InitSession /\ [][NextSession]_vars

----------------------------------------------------------------------------
(* Properties of main and the session, under SpecSession. *)

\* an uploaded table that lacks one of its required columns
LacksColumn(file, required) ==
    /\ file.present
    /\ \E i \in 1..Len(required) :
          ~HasColumn(NormalizeColumns(file.columns), required[i])

\* the error on the page names a column that an uploaded table lacks
NamesMissingColumn ==
    \/ \E i \in 1..Len(RuleColumns) :
          /\ ~HasColumn(NormalizeColumns(rule_book_file.columns), RuleColumns[i])
          /\ screen.error = KeyErrorText(RuleColumns[i])
    \/ \E i \in 1..Len(AccessColumns) :
          /\ ~HasColumn(NormalizeColumns(user_access_file.columns), AccessColumns[i])
          /\ screen.error = KeyErrorText(AccessColumns[i])

\* C7: fatal, distinguishable schema failure. While an uploaded table lacks
\* a required column, no analysis run ends in "analysis complete": a run
\* fails, and the error shown names a missing column.
C7_SchemaFailureIsFatal ==
    (\/ LacksColumn(rule_book_file, RuleColumns)
     \/ LacksColumn(user_access_file, AccessColumns)) =>
        /\ screen.run # "complete"
        /\ screen.run = "failed" => NamesMissingColumn

SessionKeys ==
    {"analyzed", "conflict_pairs", "total_users", "total_roles", "user_violations",
     "role_violations", "user_violations_df", "role_violations_df"}

\* every key of the session holds what the last successful run computed
SessionIsLastRun ==
    /\ KeySet(session_state) = SessionKeys
    /\ last_run.ran
    /\ session_state.val["analyzed"] = TRUE
    /\ session_state.val["conflict_pairs"] = last_run.conflict_pairs
    /\ session_state.val["total_users"] = last_run.total_users
    /\ session_state.val["total_roles"] = last_run.total_roles
    /\ session_state.val["user_violations"] = last_run.user_violations
    /\ session_state.val["role_violations"] = last_run.role_violations
    /\ session_state.val["user_violations_df"].rows = last_run.user_violations
    /\ session_state.val["role_violations_df"].rows = last_run.role_violations

C10_StoredResultsAreOneRun ==
    /\ (KeySet(session_state) = {} /\ ~last_run.ran) \/ SessionIsLastRun
    /\ screen.page \in {"results", "results_exception"} =>
          /\ rule_book_file.present
          /\ user_access_file.present
          /\ screen.shown = last_run
    /\ screen.run = "failed" => screen.page = "error" /\ screen.shown = NoRun

C10_FailedRunKeepsSession ==
    screen'.run = "failed" => session_state' = session_state

\* C10: stored results are all-or-nothing. The session keys are written
\* only by a run whose steps all succeeded; a run that raises leaves every
\* key as it was and stops before the results section; and whenever the
\* results section is rendered both files are uploaded and everything shown
\* is what the most recent successful run computed.
C10_AllOrNothing ==
    []C10_StoredResultsAreOneRun /\ [][C10_FailedRunKeepsSession]_vars

\* a run fails after an earlier run has succeeded and stored its results
C10_Witness ==
    /\ screen.run = "failed"
    /\ last_run.ran
    /\ Len(last_run.user_violations) = 1
    /\ SessionIsLastRun

====
